---- MODULE Spec2Model ----
(***************************************************************************)
(* Model of service/symbol/file.go, the file symbology table, and of       *)
(* convert/websocket.go, the conversion of a v1 order.                     *)
(*                                                                         *)
(* A Go string is modelled as a sequence of tokens.  A token is either one *)
(* of the characters the parser looks at ("[", "]", "=") or an indivisible *)
(* run of other characters ("a", "PassThrough", ...).  The empty string is *)
(* the empty sequence.                                                     *)
(***************************************************************************)
EXTENDS Integers, Sequences, FiniteSets, TLC

VARIABLES
    pc,             \* position of NewFileSymbology: open, scan, close, done
    counterparty,   \* FileSymbology.counterparty, the parse cursor
    counterparties, \* FileSymbology.counterparties: name -> symbolset
    parsed,         \* the lines scanner.Text() has delivered so far
    scanErr,        \* the scanner stopped on a read error (scanner.Err() # nil)
    ret,            \* what NewFileSymbology returned
    lock,           \* FileSymbology.lock: TRUE when the mutex is locked
    qpc,            \* per caller: position inside ToBitfinex / FromBitfinex
    call,           \* per caller: the arguments of the call in progress
    iter,           \* per caller: map keys the range loop has not visited yet
    result,         \* per caller: the (string, error) pair of the last return
    logs,           \* per caller: log.Printf lines written by the current call
    v1,             \* the bfxv1.Order last handed to OrderFromV1Order
    out             \* what OrderFromV1Order returned for it

loadVars  == <<pc, counterparty, counterparties, parsed, scanErr, ret>>
queryVars == <<lock, qpc, call, iter, result, logs>>
orderVars == <<v1, out>>
vars      == <<pc, counterparty, counterparties, parsed, scanErr, ret,
               lock, qpc, call, iter, result, logs, v1, out>>

(***************************************************************************)
(* Bounds                                                                  *)
(***************************************************************************)
MaxLines == 3
NCallers == 2

Callers == 1..NCallers

\* No order has been converted yet.
NoOrder == <<>>

(***************************************************************************)
(* Strings                                                                 *)
(***************************************************************************)
EmptyString == <<>>

Str(tok) == <<tok>>

HasPrefix(s, tok) == Len(s) >= 1 /\ s[1] = tok

HasSuffix(s, tok) == Len(s) >= 1 /\ s[Len(s)] = tok

ToLowerToken(tok) ==
    CASE tok = "PassThrough" -> "passthrough"
      [] tok = "TRUE"        -> "true"
      [] OTHER               -> tok

ToLower(s) == [i \in 1..Len(s) |-> ToLowerToken(s[i])]

RECURSIVE Split(_, _)
Split(s, sep) ==
    IF \A i \in 1..Len(s) : s[i] # sep
    THEN <<s>>
    ELSE LET i == CHOOSE j \in 1..Len(s) :
                     s[j] = sep /\ \A k \in 1..(j - 1) : s[k] # sep
         IN  <<SubSeq(s, 1, i - 1)>> \o Split(SubSeq(s, i + 1, Len(s)), sep)

(***************************************************************************)
(* Go maps: functions with a finite domain.                                *)
(***************************************************************************)
EmptyMap == [k \in {} |-> EmptyString]

MapPut(m, k, v) == [x \in DOMAIN m \cup {k} |-> IF x = k THEN v ELSE m[x]]

(***************************************************************************)
(* symbolset                                                               *)
(***************************************************************************)
newSymbolset == [symbols |-> EmptyMap, passthrough |-> FALSE]

\* set that keeps the value a key already has.
set_keepsFirst(s, k, v) ==
    IF k \in DOMAIN s.symbols THEN s
    ELSE [s EXCEPT !.symbols = MapPut(s.symbols, k, v)]

set(s, k, v) == [s EXCEPT !.symbols = MapPut(s.symbols, k, v)]

\* get that reports every key as present.
get_alwaysOk(s, k) ==
    [sym |-> IF k \in DOMAIN s.symbols THEN s.symbols[k] ELSE EmptyString,
     ok  |-> TRUE]

get(s, k) ==
    IF k \in DOMAIN s.symbols
    THEN [sym |-> s.symbols[k], ok |-> TRUE]
    ELSE [sym |-> EmptyString, ok |-> FALSE]

(***************************************************************************)
(* FileSymbology.parse: f is the pair (counterparty, counterparties).      *)
(***************************************************************************)
IsSectionHeader(line) == HasPrefix(line, "[") /\ HasSuffix(line, "]")

\* The directive compared without strings.ToLower.
IsPassthroughDirective_caseSensitive(s) ==
    s[1] = Str("passthrough") /\ s[2] = Str("true")

IsPassthroughDirective(s) ==
    ToLower(s[1]) = Str("passthrough") /\ ToLower(s[2]) = Str("true")

\* parse that starts the symbol set of a new counterparty from the set of
\* the section it has just left.
parse_sharesSymbolset(f, line) ==
    LET cur == IF IsSectionHeader(line)
               THEN SubSeq(line, 2, Len(line) - 1)
               ELSE f.counterparty
        s   == Split(line, "=")
    IN  IF Len(s) < 2
        THEN [counterparty |-> cur, counterparties |-> f.counterparties]
        ELSE LET symbols == IF cur \in DOMAIN f.counterparties
                            THEN f.counterparties[cur]
                            ELSE IF DOMAIN f.counterparties # {}
                            THEN f.counterparties[
                                     CHOOSE cp \in DOMAIN f.counterparties : TRUE]
                            ELSE newSymbolset
                 updated == IF IsPassthroughDirective(s)
                            THEN [symbols EXCEPT !.passthrough = TRUE]
                            ELSE set(symbols, s[1], s[2])
             IN  [counterparty   |-> cur,
                  counterparties |-> MapPut(f.counterparties, cur, updated)]

\* parse that creates the symbol set as soon as the header is read.
parse_headerCreatesSet(f, line) ==
    LET cur == IF IsSectionHeader(line)
               THEN SubSeq(line, 2, Len(line) - 1)
               ELSE f.counterparty
        s   == Split(line, "=")
        cps == IF IsSectionHeader(line) /\ cur \notin DOMAIN f.counterparties
               THEN MapPut(f.counterparties, cur, newSymbolset)
               ELSE f.counterparties
    IN  IF Len(s) < 2
        THEN [counterparty |-> cur, counterparties |-> cps]
        ELSE LET symbols == IF cur \in DOMAIN cps THEN cps[cur] ELSE newSymbolset
                 updated == IF IsPassthroughDirective(s)
                            THEN [symbols EXCEPT !.passthrough = TRUE]
                            ELSE set(symbols, s[1], s[2])
             IN  [counterparty   |-> cur,
                  counterparties |-> MapPut(cps, cur, updated)]

parse(f, line) ==
    LET cur == IF IsSectionHeader(line)
               THEN SubSeq(line, 2, Len(line) - 1)
               ELSE f.counterparty
        s   == Split(line, "=")
    IN  IF Len(s) < 2
        THEN [counterparty |-> cur, counterparties |-> f.counterparties]
        ELSE LET symbols == IF cur \in DOMAIN f.counterparties
                            THEN f.counterparties[cur]
                            ELSE newSymbolset
                 updated == IF IsPassthroughDirective(s)
                            THEN [symbols EXCEPT !.passthrough = TRUE]
                            ELSE set(symbols, s[1], s[2])
             IN  [counterparty   |-> cur,
                  counterparties |-> MapPut(f.counterparties, cur, updated)]

\* for scanner.Scan() { s.parse(scanner.Text()) } over a whole list of lines.
RECURSIVE scanLines(_, _)
scanLines(f, lines) ==
    IF lines = <<>> THEN f
    ELSE scanLines(parse(f, Head(lines)), Tail(lines))

\* s := &FileSymbology{counterparties: make(map[string]*symbolset)}
newFileSymbology == [counterparty |-> EmptyString, counterparties |-> EmptyMap]

(***************************************************************************)
(* The lines a configuration file is made of.                              *)
(***************************************************************************)
Lines ==
    { <<>>,                                     \* an empty line
      <<"[", "A", "]">>,                        \* [A]
      <<"[", "B", "]">>,                        \* [B]
      <<"[", "]">>,                             \* []
      <<"[", "A">>,                             \* [A     (no closing bracket)
      <<"[", "A", "=", "x", "]">>,              \* [A=x]
      <<"a", "=", "x">>,                        \* a=x
      <<"a", "=", "y">>,                        \* a=y
      <<"b", "=", "x">>,                        \* b=x
      <<"=">>,                                  \* =     (empty key and value)
      <<"PassThrough", "=", "TRUE">>,           \* PassThrough=TRUE
      <<"passthrough", "=", "x">>,              \* passthrough=x
      <<"a", "=", "y", "=", "x">>,              \* a=y=x
      <<"PassThrough", "=", "TRUE", "=", "x">>  \* PassThrough=TRUE=x
    }

(***************************************************************************)
(* NewFileSymbology, step by step.                                         *)
(***************************************************************************)
NoReturn == [table |-> "none", err |-> "none"]

InitLoad ==
    /\ pc = "open"
    /\ counterparty = EmptyString
    /\ counterparties = EmptyMap
    /\ parsed = <<>>
    /\ scanErr = FALSE
    /\ ret = NoReturn
    /\ lock = FALSE
    /\ qpc = [c \in Callers |-> "idle"]
    /\ call = [c \in Callers |-> [op |-> "none", symbol |-> EmptyString,
                                  counterparty |-> EmptyString]]
    /\ iter = [c \in Callers |-> {}]
    /\ result = [c \in Callers |-> [sym |-> EmptyString, err |-> "none"]]
    /\ logs = [c \in Callers |-> <<>>]
    /\ v1 = NoOrder
    /\ out = NoOrder

\* os.Open succeeds; the table and the scanner are created.
OpenOk ==
    /\ pc = "open"
    /\ pc' = "scan"
    /\ UNCHANGED <<counterparty, counterparties, parsed, scanErr, ret>>
    /\ UNCHANGED queryVars
    /\ UNCHANGED orderVars

\* os.Open fails: return nil, err.
OpenFail ==
    /\ pc = "open"
    /\ pc' = "done"
    /\ ret' = [table |-> "nil", err |-> "open"]
    /\ UNCHANGED <<counterparty, counterparties, parsed, scanErr>>
    /\ UNCHANGED queryVars
    /\ UNCHANGED orderVars

\* scanner.Scan() returns true: s.parse(scanner.Text()).
ScanLine ==
    /\ pc = "scan"
    /\ Len(parsed) < MaxLines
    /\ \E line \in Lines :
          LET f == parse([counterparty |-> counterparty,
                          counterparties |-> counterparties], line)
          IN  /\ parsed' = Append(parsed, line)
              /\ counterparty' = f.counterparty
              /\ counterparties' = f.counterparties
    /\ UNCHANGED <<pc, scanErr, ret>>
    /\ UNCHANGED queryVars
    /\ UNCHANGED orderVars

\* scanner.Scan() returns false at the end of the file.
ScanEOF ==
    /\ pc = "scan"
    /\ pc' = "close"
    /\ UNCHANGED <<counterparty, counterparties, parsed, scanErr, ret>>
    /\ UNCHANGED queryVars
    /\ UNCHANGED orderVars

\* scanner.Scan() returns false because a read failed or a line was too long;
\* the loop ends the same way and scanner.Err() is never looked at.
ScanError ==
    /\ pc = "scan"
    /\ pc' = "close"
    /\ scanErr' = TRUE
    /\ UNCHANGED <<counterparty, counterparties, parsed, ret>>
    /\ UNCHANGED queryVars
    /\ UNCHANGED orderVars

\* return s, f.Close() with Close succeeding.
CloseOk ==
    /\ pc = "close"
    /\ pc' = "done"
    /\ ret' = [table |-> "s", err |-> "nil"]
    /\ UNCHANGED <<counterparty, counterparties, parsed, scanErr>>
    /\ UNCHANGED queryVars
    /\ UNCHANGED orderVars

\* return s, f.Close() with Close failing.
CloseFail ==
    /\ pc = "close"
    /\ pc' = "done"
    /\ ret' = [table |-> "s", err |-> "close"]
    /\ UNCHANGED <<counterparty, counterparties, parsed, scanErr>>
    /\ UNCHANGED queryVars
    /\ UNCHANGED orderVars

NextLoad ==
    \/ OpenOk
    \/ OpenFail
    \/ ScanLine
    \/ ScanEOF
    \/ ScanError
    \/ CloseOk
    \/ CloseFail

SpecLoad == InitLoad /\ [][NextLoad]_vars

(***************************************************************************)
(* ToBitfinex and FromBitfinex as a single sequential caller sees them.    *)
(* A return value is the pair (string, error); err is "nil", or names the  *)
(* failure branch: "counterparty" (line 86 / 106) or "symbol" (97 / 113).  *)
(***************************************************************************)
Found(sym) == [sym |-> sym, err |-> "nil"]

NoCounterparty == [sym |-> EmptyString, err |-> "counterparty"]

NoSymbol == [sym |-> EmptyString, err |-> "symbol"]

\* The orders in which a range loop may visit the keys of a map.
RangeOrders(m) ==
    LET n == Cardinality(DOMAIN m)
    IN  {o \in [1..n -> DOMAIN m] : \A i, j \in 1..n : i # j => o[i] # o[j]}

\* for bfx, cp := range symset.symbols { if cp == symbol { return bfx, nil } }
\* The range loop returning the matched counterparty symbol, not its key.
RECURSIVE rangeSymbols_returnsValue(_, _, _)
rangeSymbols_returnsValue(symbols, order, symbol) ==
    IF order = <<>>
    THEN NoSymbol
    ELSE LET bfx == Head(order)
             cp  == symbols[bfx]
         IN  IF cp = symbol
             THEN Found(cp)
             ELSE rangeSymbols_returnsValue(symbols, Tail(order), symbol)

RECURSIVE rangeSymbols(_, _, _)
rangeSymbols(symbols, order, symbol) ==
    IF order = <<>>
    THEN NoSymbol
    ELSE LET bfx == Head(order)
             cp  == symbols[bfx]
         IN  IF cp = symbol
             THEN Found(bfx)
             ELSE rangeSymbols(symbols, Tail(order), symbol)

\* The set of values ToBitfinex may return: one per iteration order.
ToBitfinex(symbol, cp) ==
    IF cp \notin DOMAIN counterparties
    THEN {NoCounterparty}
    ELSE LET symset == counterparties[cp]
         IN  IF symset.passthrough
             THEN {Found(symbol)}
             ELSE {rangeSymbols(symset.symbols, o, symbol) :
                      o \in RangeOrders(symset.symbols)}

\* FromBitfinex without the ok test of line 105: the nil set is dereferenced.
FromBitfinex_noCounterpartyCheck(symbol, cp) ==
    IF cp \notin DOMAIN counterparties
    THEN [sym |-> EmptyString, err |-> "panic"]
    ELSE LET symset == counterparties[cp]
         IN  IF symset.passthrough
             THEN Found(symbol)
             ELSE LET r == get(symset, symbol)
                  IN  IF ~r.ok THEN NoSymbol ELSE Found(r.sym)

FromBitfinex(symbol, cp) ==
    IF cp \notin DOMAIN counterparties
    THEN NoCounterparty
    ELSE LET symset == counterparties[cp]
         IN  IF symset.passthrough
             THEN Found(symbol)
             ELSE LET r == get(symset, symbol)
                  IN  IF ~r.ok THEN NoSymbol ELSE Found(r.sym)

(***************************************************************************)
(* Callers of a loaded table.  The table is one NewFileSymbology returned  *)
(* without error for one of these configuration files.                     *)
(***************************************************************************)
ConfigFiles ==
    { <<>>,
      << <<"[", "A", "]">>, <<"a", "=", "x">>, <<"b", "=", "x">> >>,
      << <<"[", "A", "]">>, <<"a", "=", "x">>,
         <<"[", "B", "]">>, <<"PassThrough", "=", "TRUE">> >> }

QuerySymbols == {<<"a">>, <<"b">>, <<"x">>}

QueryCounterparties == {<<"A">>, <<"B">>}

NoCall == [op |-> "none", symbol |-> EmptyString, counterparty |-> EmptyString]

NoResult == [sym |-> EmptyString, err |-> "none"]

Init ==
    /\ \E file \in ConfigFiles :
          LET f == scanLines(newFileSymbology, file)
          IN  /\ parsed = file
              /\ counterparty = f.counterparty
              /\ counterparties = f.counterparties
    /\ pc = "done"
    /\ scanErr = FALSE
    /\ ret = [table |-> "s", err |-> "nil"]
    /\ lock = FALSE
    /\ qpc = [c \in Callers |-> "idle"]
    /\ call = [c \in Callers |-> NoCall]
    /\ iter = [c \in Callers |-> {}]
    /\ result = [c \in Callers |-> NoResult]
    /\ logs = [c \in Callers |-> <<>>]
    /\ v1 = NoOrder
    /\ out = NoOrder

\* A caller enters ToBitfinex or FromBitfinex with some arguments.
Call(c) ==
    /\ qpc[c] \in {"idle", "done"}
    /\ \E op \in {"ToBitfinex", "FromBitfinex"},
          symbol \in QuerySymbols, cp \in QueryCounterparties :
          call' = [call EXCEPT ![c] = [op |-> op, symbol |-> symbol,
                                       counterparty |-> cp]]
    /\ qpc' = [qpc EXCEPT ![c] = "lock"]
    /\ result' = [result EXCEPT ![c] = NoResult]
    /\ logs' = [logs EXCEPT ![c] = <<>>]
    /\ iter' = [iter EXCEPT ![c] = {}]
    /\ UNCHANGED lock
    /\ UNCHANGED loadVars
    /\ UNCHANGED orderVars

\* A lock that never blocks.
Lock_doesNotBlock(c) ==
    /\ qpc[c] = "lock"
    /\ lock' = TRUE
    /\ qpc' = [qpc EXCEPT ![c] = "lookup"]
    /\ UNCHANGED <<call, iter, result, logs>>
    /\ UNCHANGED loadVars
    /\ UNCHANGED orderVars

\* f.lock.Lock(): blocks while the mutex is held.
Lock(c) ==
    /\ qpc[c] = "lock"
    /\ ~lock
    /\ lock' = TRUE
    /\ qpc' = [qpc EXCEPT ![c] = "lookup"]
    /\ UNCHANGED <<call, iter, result, logs>>
    /\ UNCHANGED loadVars
    /\ UNCHANGED orderVars

\* The comparison of the range loop.
rangeMatches_comparesKey(bfx, cp, symbol) == bfx = symbol

rangeMatches(bfx, cp, symbol) == cp = symbol

\* A lookup that creates the symbol set of a counterparty it does not know,
\* as parse does.
ToBitfinexLookup_createsSet(c) ==
    /\ qpc[c] = "lookup"
    /\ call[c].op = "ToBitfinex"
    /\ IF call[c].counterparty \notin DOMAIN counterparties
       THEN /\ logs' = [logs EXCEPT ![c] = Append(@, "counterparty")]
            /\ result' = [result EXCEPT ![c] = NoCounterparty]
            /\ qpc' = [qpc EXCEPT ![c] = "unlock"]
            /\ counterparties' =
                  MapPut(counterparties, call[c].counterparty, newSymbolset)
            /\ UNCHANGED iter
       ELSE LET symset == counterparties[call[c].counterparty]
            IN  /\ UNCHANGED counterparties
                /\ IF symset.passthrough
                   THEN /\ result' = [result EXCEPT ![c] = Found(call[c].symbol)]
                        /\ qpc' = [qpc EXCEPT ![c] = "unlock"]
                        /\ UNCHANGED <<iter, logs>>
                   ELSE /\ iter' = [iter EXCEPT ![c] = DOMAIN symset.symbols]
                        /\ qpc' = [qpc EXCEPT ![c] = "range"]
                        /\ UNCHANGED <<result, logs>>
    /\ UNCHANGED <<lock, call>>
    /\ UNCHANGED <<pc, counterparty, parsed, scanErr, ret>>
    /\ UNCHANGED orderVars

\* ToBitfinex from the counterparty lookup to the start of the range loop.
ToBitfinexLookup(c) ==
    /\ qpc[c] = "lookup"
    /\ call[c].op = "ToBitfinex"
    /\ IF call[c].counterparty \notin DOMAIN counterparties
       THEN /\ logs' = [logs EXCEPT ![c] = Append(@, "counterparty")]
            /\ result' = [result EXCEPT ![c] = NoCounterparty]
            /\ qpc' = [qpc EXCEPT ![c] = "unlock"]
            /\ UNCHANGED iter
       ELSE LET symset == counterparties[call[c].counterparty]
            IN  IF symset.passthrough
                THEN /\ result' = [result EXCEPT ![c] = Found(call[c].symbol)]
                     /\ qpc' = [qpc EXCEPT ![c] = "unlock"]
                     /\ UNCHANGED <<iter, logs>>
                ELSE /\ iter' = [iter EXCEPT ![c] = DOMAIN symset.symbols]
                     /\ qpc' = [qpc EXCEPT ![c] = "range"]
                     /\ UNCHANGED <<result, logs>>
    /\ UNCHANGED <<lock, call>>
    /\ UNCHANGED loadVars
    /\ UNCHANGED orderVars

\* One iteration of the range loop, over any key not visited yet, or the
\* end of the loop and the not-found return after it.
ToBitfinexRange(c) ==
    /\ qpc[c] = "range"
    /\ IF iter[c] = {}
       THEN /\ logs' = [logs EXCEPT ![c] = Append(@, "symbol")]
            /\ result' = [result EXCEPT ![c] = NoSymbol]
            /\ qpc' = [qpc EXCEPT ![c] = "unlock"]
            /\ UNCHANGED iter
       ELSE \E bfx \in iter[c] :
               LET cp == counterparties[call[c].counterparty].symbols[bfx]
               IN  IF rangeMatches(bfx, cp, call[c].symbol)
                   THEN /\ result' = [result EXCEPT ![c] = Found(bfx)]
                        /\ qpc' = [qpc EXCEPT ![c] = "unlock"]
                        /\ UNCHANGED <<iter, logs>>
                   ELSE /\ iter' = [iter EXCEPT ![c] = @ \ {bfx}]
                        /\ UNCHANGED <<qpc, result, logs>>
    /\ UNCHANGED <<lock, call>>
    /\ UNCHANGED loadVars
    /\ UNCHANGED orderVars

\* A lookup that leaves the parse cursor on the counterparty it was asked
\* about.
FromBitfinexLookup_movesCursor(c) ==
    /\ qpc[c] = "lookup"
    /\ call[c].op = "FromBitfinex"
    /\ result' = [result EXCEPT ![c] =
          IF call[c].counterparty \notin DOMAIN counterparties
          THEN NoCounterparty
          ELSE LET symset == counterparties[call[c].counterparty]
               IN  IF symset.passthrough
                   THEN Found(call[c].symbol)
                   ELSE LET r == get(symset, call[c].symbol)
                        IN  IF ~r.ok THEN NoSymbol ELSE Found(r.sym)]
    /\ qpc' = [qpc EXCEPT ![c] = "unlock"]
    /\ counterparty' = call[c].counterparty
    /\ UNCHANGED <<lock, call, iter, logs>>
    /\ UNCHANGED <<pc, counterparties, parsed, scanErr, ret>>
    /\ UNCHANGED orderVars

\* FromBitfinex from the counterparty lookup to its return value.
FromBitfinexLookup(c) ==
    /\ qpc[c] = "lookup"
    /\ call[c].op = "FromBitfinex"
    /\ result' = [result EXCEPT ![c] =
          IF call[c].counterparty \notin DOMAIN counterparties
          THEN NoCounterparty
          ELSE LET symset == counterparties[call[c].counterparty]
               IN  IF symset.passthrough
                   THEN Found(call[c].symbol)
                   ELSE LET r == get(symset, call[c].symbol)
                        IN  IF ~r.ok THEN NoSymbol ELSE Found(r.sym)]
    /\ qpc' = [qpc EXCEPT ![c] = "unlock"]
    /\ UNCHANGED <<lock, call, iter, logs>>
    /\ UNCHANGED loadVars
    /\ UNCHANGED orderVars

\* A return that releases the lock on the success path only.
Unlock_keepsLockOnError(c) ==
    /\ qpc[c] = "unlock"
    /\ lock' = (result[c].err # "nil")
    /\ qpc' = [qpc EXCEPT ![c] = "done"]
    /\ UNCHANGED <<call, iter, result, logs>>
    /\ UNCHANGED loadVars
    /\ UNCHANGED orderVars

\* The deferred f.lock.Unlock() and the return to the caller.
Unlock(c) ==
    /\ qpc[c] = "unlock"
    /\ lock' = FALSE
    /\ qpc' = [qpc EXCEPT ![c] = "done"]
    /\ UNCHANGED <<call, iter, result, logs>>
    /\ UNCHANGED loadVars
    /\ UNCHANGED orderVars

Next ==
    \E c \in Callers :
        \/ Call(c)
        \/ Lock(c)
        \/ ToBitfinexLookup(c)
        \/ ToBitfinexRange(c)
        \/ FromBitfinexLookup(c)
        \/ Unlock(c)

Spec == Init /\ [][Next]_vars

(***************************************************************************)
(* Vocabulary of the properties: the file read so far, seen as text.       *)
(***************************************************************************)
Loaded == pc = "done" /\ ret.table = "s"

HeaderLine(line) ==
    Len(line) >= 2 /\ line[1] = "[" /\ line[Len(line)] = "]"

HeaderName(line) == SubSeq(line, 2, Len(line) - 1)

EqPositions(line) == {i \in 1..Len(line) : line[i] = "="}

EqCount(line) == Cardinality(EqPositions(line))

Min(S) == CHOOSE x \in S : \A y \in S : x <= y

\* The text left of the first '=' and the text between the first '=' and the
\* second one (or the end of the line).
LeftOf(line) == SubSeq(line, 1, Min(EqPositions(line)) - 1)

RightOf(line) ==
    LET first == Min(EqPositions(line))
        rest  == EqPositions(line) \ {first}
        stop  == IF rest = {} THEN Len(line) + 1 ELSE Min(rest)
    IN  SubSeq(line, first + 1, stop - 1)

DirectiveLine(line) ==
    /\ EqCount(line) >= 1
    /\ ToLower(LeftOf(line)) = <<"passthrough">>
    /\ ToLower(RightOf(line)) = <<"true">>

\* A line that assigns a symbol: it has a '=' and is not a passthrough directive.
AssignLine(line) == EqCount(line) >= 1 /\ ~DirectiveLine(line)

\* The section line i of the file belongs to: the name in the last header at
\* or before it, the empty name when there is none.
SectionAt(i) ==
    LET hs == {j \in 1..i : HeaderLine(parsed[j])}
    IN  IF hs = {} THEN EmptyString
        ELSE HeaderName(parsed[CHOOSE j \in hs : \A k \in hs : k <= j])

Values(m) == {m[k] : k \in DOMAIN m}

\* Symbols and counterparty names to query with.
ProbeSymbols ==
    {EmptyString, <<"a">>, <<"b">>, <<"x">>, <<"y">>, <<"z">>,
     <<"PassThrough">>, <<"passthrough">>, <<"TRUE">>, <<"[", "A">>}

ProbeCounterparties ==
    {EmptyString, <<"A">>, <<"B">>, <<"C">>, <<"A", "=", "x">>}


ErrorReturns == {"counterparty", "symbol"}

\* The symbols worth asking a counterparty about: the probes and its own.
SymbolsFor(cp) ==
    ProbeSymbols \cup
    (IF cp \in DOMAIN counterparties
     THEN DOMAIN counterparties[cp].symbols \cup Values(counterparties[cp].symbols)
     ELSE {})

(***************************************************************************)
(* C1, as stated: for every non-passthrough counterparty cp and every pair *)
(* (ex, cp_sym) of its symbol set, FromBitfinex(ex, cp) returns cp_sym and *)
(* ToBitfinex(cp_sym, cp) returns ex, both without error, whatever other   *)
(* entries the section contains.                                           *)
(***************************************************************************)
RoundTrip ==
    Loaded =>
    \A cp \in DOMAIN counterparties :
        ~counterparties[cp].passthrough =>
            \A ex \in DOMAIN counterparties[cp].symbols :
                LET cpSym == counterparties[cp].symbols[ex]
                IN  /\ FromBitfinex(ex, cp) = Found(cpSym)
                    /\ ToBitfinex(cpSym, cp) = {Found(ex)}

(***************************************************************************)
(* C1, amended: FromBitfinex(ex, cp) returns cp_sym without error, and     *)
(* ToBitfinex(cp_sym, cp) returns without error an exchange symbol that    *)
(* the set maps to cp_sym; it is ex whenever no other entry of the section *)
(* has the same counterparty symbol.                                       *)
(***************************************************************************)
RoundTripUpToDuplicates ==
    Loaded =>
    \A cp \in DOMAIN counterparties :
        ~counterparties[cp].passthrough =>
            LET symbols == counterparties[cp].symbols
            IN  \A ex \in DOMAIN symbols :
                    /\ FromBitfinex(ex, cp) = Found(symbols[ex])
                    /\ \A r \in ToBitfinex(symbols[ex], cp) :
                          /\ r.err = "nil"
                          /\ r.sym \in DOMAIN symbols
                          /\ symbols[r.sym] = symbols[ex]
                    /\ (\A other \in DOMAIN symbols \ {ex} :
                            symbols[other] # symbols[ex])
                       => ToBitfinex(symbols[ex], cp) = {Found(ex)}

\* A returned table with a=x, b=x and one more entry in a non-passthrough
\* section: x comes back as a or as b, the third entry round-trips exactly.
RoundTripWitness ==
    /\ Loaded
    /\ \E cp \in DOMAIN counterparties :
          LET symbols == counterparties[cp].symbols
          IN  /\ ~counterparties[cp].passthrough
              /\ {<<"a">>, <<"b">>} \subseteq DOMAIN symbols
              /\ symbols[<<"a">>] = <<"x">>
              /\ symbols[<<"b">>] = <<"x">>
              /\ ToBitfinex(<<"x">>, cp) = {Found(<<"a">>), Found(<<"b">>)}
              /\ \E ex \in DOMAIN symbols \ {<<"a">>, <<"b">>} :
                    /\ symbols[ex] # <<"x">>
                    /\ ToBitfinex(symbols[ex], cp) = {Found(ex)}
                    /\ FromBitfinex(ex, cp) = Found(symbols[ex])

(***************************************************************************)
(* C2: a counterparty whose section contains the line passthrough=true,    *)
(* in any letter case and at any position, answers ToBitfinex(s, cp) and   *)
(* FromBitfinex(s, cp) with s and no error for every non-empty s, also     *)
(* when s is a key or a value of one of the section's entries.             *)
(***************************************************************************)
PassthroughLine(line) ==
    /\ Len(line) = 3
    /\ line[2] = "="
    /\ ToLowerToken(line[1]) = "passthrough"
    /\ ToLowerToken(line[3]) = "true"

PassthroughIdentity ==
    Loaded =>
    \A i \in 1..Len(parsed) :
        PassthroughLine(parsed[i]) =>
            LET cp == SectionAt(i)
            IN  /\ cp \in DOMAIN counterparties
                /\ \A s \in SymbolsFor(cp) \ {EmptyString} :
                      /\ ToBitfinex(s, cp) = {Found(s)}
                      /\ FromBitfinex(s, cp) = Found(s)

\* A returned table whose section A holds the entry a=x and the directive;
\* a and x come back unchanged in both directions.
PassthroughWitness ==
    /\ Loaded
    /\ \E i, j \in 1..Len(parsed) :
          /\ parsed[i] = <<"a", "=", "x">>
          /\ parsed[j] = <<"PassThrough", "=", "TRUE">>
          /\ SectionAt(i) = <<"A">> /\ SectionAt(j) = <<"A">>
    /\ <<"A">> \in DOMAIN counterparties
    /\ DOMAIN counterparties[<<"A">>].symbols = {<<"a">>}
    /\ FromBitfinex(<<"a">>, <<"A">>) = Found(<<"a">>)
    /\ ToBitfinex(<<"x">>, <<"A">>) = {Found(<<"x">>)}

(***************************************************************************)
(* C3: N concurrent callers of ToBitfinex / FromBitfinex on one loaded     *)
(* table, under every interleaving, each obtain a result the same lookup   *)
(* returns when a single sequential caller issues it alone.                *)
(***************************************************************************)
ConcurrentMatchesSequential ==
    \A c \in Callers :
        qpc[c] = "done" =>
            IF call[c].op = "ToBitfinex"
            THEN result[c] \in ToBitfinex(call[c].symbol, call[c].counterparty)
            ELSE result[c] = FromBitfinex(call[c].symbol, call[c].counterparty)

\* One caller has returned b for x while another, asking for a, holds the
\* lock in the middle of its range loop.
ConcurrentWitness ==
    \E c1, c2 \in Callers :
        /\ c1 # c2
        /\ qpc[c1] = "done"
        /\ call[c1] = [op |-> "ToBitfinex", symbol |-> <<"x">>,
                       counterparty |-> <<"A">>]
        /\ result[c1] = Found(<<"b">>)
        /\ qpc[c2] = "range"
        /\ call[c2] = [op |-> "ToBitfinex", symbol |-> <<"a">>,
                       counterparty |-> <<"A">>]
        /\ Cardinality(iter[c2]) = 1
        /\ lock

(***************************************************************************)
(* C8: for a counterparty that has no symbol set in the table, ToBitfinex  *)
(* and FromBitfinex return the empty string and an error for every symbol, *)
(* and do not panic.                                                       *)
(***************************************************************************)
UnknownCounterpartyNotFound ==
    Loaded =>
    \A cp \in ProbeCounterparties \ DOMAIN counterparties :
        \A s \in ProbeSymbols :
            /\ FromBitfinex(s, cp).sym = EmptyString
            /\ FromBitfinex(s, cp).err \in ErrorReturns
            /\ \A r \in ToBitfinex(s, cp) :
                  r.sym = EmptyString /\ r.err \in ErrorReturns

\* A returned table that configures a=x under A, asked about B.
UnknownCounterpartyWitness ==
    /\ Loaded
    /\ <<"A">> \in DOMAIN counterparties
    /\ <<"a">> \in DOMAIN counterparties[<<"A">>].symbols
    /\ <<"B">> \notin DOMAIN counterparties
    /\ FromBitfinex(<<"a">>, <<"B">>) = NoCounterparty
    /\ ToBitfinex(<<"x">>, <<"B">>) = {NoCounterparty}

(***************************************************************************)
(* C9: for a configured non-passthrough counterparty, ToBitfinex(s, cp)    *)
(* with s no entry's counterparty symbol and FromBitfinex(s, cp) with s no *)
(* entry's exchange symbol return the empty string and an error, never the *)
(* input, another entry's symbol or a default.                             *)
(***************************************************************************)
UnmappedSymbolNotFound ==
    Loaded =>
    \A cp \in DOMAIN counterparties :
        ~counterparties[cp].passthrough =>
            LET symbols == counterparties[cp].symbols
            IN  \A s \in SymbolsFor(cp) :
                    /\ s \notin Values(symbols)
                          => ToBitfinex(s, cp) = {NoSymbol}
                    /\ s \notin DOMAIN symbols
                          => FromBitfinex(s, cp) = NoSymbol

\* A returned non-passthrough table with a=x and b=x: x is no exchange
\* symbol, a is no counterparty symbol, z is neither.
UnmappedSymbolWitness ==
    /\ Loaded
    /\ \E cp \in DOMAIN counterparties :
          /\ ~counterparties[cp].passthrough
          /\ DOMAIN counterparties[cp].symbols = {<<"a">>, <<"b">>}
          /\ FromBitfinex(<<"x">>, cp) = NoSymbol
          /\ ToBitfinex(<<"a">>, cp) = {NoSymbol}
          /\ FromBitfinex(<<"z">>, cp) = NoSymbol
          /\ ToBitfinex(<<"z">>, cp) = {NoSymbol}


(***************************************************************************)
(* C4, as stated: every section header line [name] has created the key     *)
(* name in counterparties, also when no mapping line follows it; such a    *)
(* counterparty has an empty, non-passthrough symbol set, so a query for   *)
(* it fails as unknown symbol.                                             *)
(***************************************************************************)
NamedHeaderAt(i) == HeaderLine(parsed[i]) /\ HeaderName(parsed[i]) # EmptyString

\* No line with a '=' was read while name was the current section.
NothingAssignedIn(name) ==
    \A j \in 1..Len(parsed) :
        SectionAt(j) = name => EqCount(parsed[j]) = 0

HeaderCreatesCounterparty ==
    Loaded =>
    \A i \in 1..Len(parsed) :
        NamedHeaderAt(i) =>
            LET name == HeaderName(parsed[i])
            IN  /\ name \in DOMAIN counterparties
                /\ NothingAssignedIn(name) =>
                      /\ counterparties[name] = newSymbolset
                      /\ \A s \in ProbeSymbols :
                            FromBitfinex(s, name) = NoSymbol

(***************************************************************************)
(* C4, amended: a section header line alone creates no key.  name is a key *)
(* of counterparties exactly when a line containing '=' was read while     *)
(* name was the current section.  A header followed by no such line leaves *)
(* name absent, so a query for it fails as unknown counterparty, and no    *)
(* counterparty has an empty, non-passthrough symbol set.                  *)
(***************************************************************************)
HeaderAloneCreatesNothing ==
    Loaded =>
    /\ DOMAIN counterparties =
          {SectionAt(i) : i \in {j \in 1..Len(parsed) : EqCount(parsed[j]) >= 1}}
    /\ \A i \in 1..Len(parsed) :
          (NamedHeaderAt(i) /\ NothingAssignedIn(HeaderName(parsed[i]))) =>
              LET name == HeaderName(parsed[i])
              IN  /\ name \notin DOMAIN counterparties
                  /\ \A s \in ProbeSymbols :
                        /\ FromBitfinex(s, name) = NoCounterparty
                        /\ ToBitfinex(s, name) = {NoCounterparty}
    /\ \A cp \in DOMAIN counterparties :
          counterparties[cp] # newSymbolset

\* A returned table read from [A], [B], a=x: A was declared and is absent,
\* B is present.
HeaderAloneWitness ==
    /\ Loaded
    /\ parsed = << <<"[", "A", "]">>, <<"[", "B", "]">>, <<"a", "=", "x">> >>
    /\ DOMAIN counterparties = {<<"B">>}
    /\ FromBitfinex(<<"a">>, <<"A">>) = NoCounterparty
    /\ FromBitfinex(<<"a">>, <<"B">>) = Found(<<"x">>)

(***************************************************************************)
(* C5: parsing a non-header line that contains zero '=' or more than one   *)
(* '=' leaves the whole table unchanged: no counterparty is created, no    *)
(* entry added or overwritten, no passthrough flag set.                    *)
(***************************************************************************)
MalformedLineLeavesTableUnchanged ==
    [][(pc = "scan" /\ Len(parsed') = Len(parsed) + 1) =>
          LET line == parsed'[Len(parsed')]
          IN  (~HeaderLine(line) /\ EqCount(line) # 1) =>
                  /\ counterparties' = counterparties
                  /\ counterparty' = counterparty]_vars

(***************************************************************************)
(* C6: lines before the first section header are ignored: the table holds  *)
(* no symbol set, entry or passthrough flag that comes from such a line,   *)
(* so it is the table the file gives from its first header on.             *)
(***************************************************************************)
FromFirstHeader(lines) ==
    LET hs == {i \in 1..Len(lines) : HeaderLine(lines[i])}
    IN  IF hs = {} THEN <<>> ELSE SubSeq(lines, Min(hs), Len(lines))

LinesBeforeFirstHeaderIgnored ==
    Loaded =>
    counterparties =
        scanLines(newFileSymbology, FromFirstHeader(parsed)).counterparties

(***************************************************************************)
(* C7, as stated: when a section contains several mapping lines with the   *)
(* same exchange symbol, the symbol set maps it to the right-hand side of  *)
(* the last such line, so FromBitfinex(ex, cp) returns the last value.     *)
(***************************************************************************)
\* Line i assigns a symbol that an earlier line of the same section assigned
\* too, and no later line of that section assigns it again.
LastOfSeveralAt(i) ==
    /\ AssignLine(parsed[i])
    /\ \E j \in 1..(i - 1) :
          /\ AssignLine(parsed[j])
          /\ SectionAt(j) = SectionAt(i)
          /\ LeftOf(parsed[j]) = LeftOf(parsed[i])
    /\ \A k \in (i + 1)..Len(parsed) :
          ~(/\ AssignLine(parsed[k])
            /\ SectionAt(k) = SectionAt(i)
            /\ LeftOf(parsed[k]) = LeftOf(parsed[i]))

LastWriteWins ==
    Loaded =>
    \A i \in 1..Len(parsed) :
        LastOfSeveralAt(i) =>
            LET cp == SectionAt(i)
                ex == LeftOf(parsed[i])
            IN  /\ cp \in DOMAIN counterparties
                /\ ex \in DOMAIN counterparties[cp].symbols
                /\ counterparties[cp].symbols[ex] = RightOf(parsed[i])
                /\ FromBitfinex(ex, cp) = Found(RightOf(parsed[i]))

(***************************************************************************)
(* C7, amended: when a section contains several lines that assign the same *)
(* exchange symbol (lines with a '=' that are no passthrough directive,    *)
(* the symbol being the text before the first '='), the symbol set maps it *)
(* to the text between the first '=' and the next one or the end of the    *)
(* last such line; FromBitfinex(ex, cp) returns that value unless the      *)
(* section is passthrough, where it returns ex.                            *)
(***************************************************************************)
LastWriteWinsUnlessPassthrough ==
    Loaded =>
    \A i \in 1..Len(parsed) :
        LastOfSeveralAt(i) =>
            LET cp == SectionAt(i)
                ex == LeftOf(parsed[i])
            IN  /\ cp \in DOMAIN counterparties
                /\ ex \in DOMAIN counterparties[cp].symbols
                /\ counterparties[cp].symbols[ex] = RightOf(parsed[i])
                /\ FromBitfinex(ex, cp) =
                      IF counterparties[cp].passthrough
                      THEN Found(ex)
                      ELSE Found(RightOf(parsed[i]))

\* A returned table read from [A], a=x, a=y: a maps to y, not to x.
LastWriteWinsWitness ==
    /\ Loaded
    /\ parsed = << <<"[", "A", "]">>, <<"a", "=", "x">>, <<"a", "=", "y">> >>
    /\ LastOfSeveralAt(3)
    /\ ~counterparties[<<"A">>].passthrough
    /\ FromBitfinex(<<"a">>, <<"A">>) = Found(<<"y">>)

(***************************************************************************)
(* C10: construction is all-or-nothing.  When the file cannot be opened, a *)
(* read fails before the end of the file or closing fails,                 *)
(* NewFileSymbology returns an error and no table; it never returns a      *)
(* table together with an error, nor a table built from part of the file   *)
(* with a nil error.                                                       *)
(***************************************************************************)
ConstructionAllOrNothing ==
    pc = "done" =>
        /\ (scanErr \/ ret.err \in {"open", "close"})
              => (ret.table = "nil" /\ ret.err # "nil")
        /\ ~(ret.table # "nil" /\ ret.err # "nil")
        /\ ~(scanErr /\ ret.table # "nil" /\ ret.err = "nil")

(***************************************************************************)
(* C11: every not-found outcome of a translation query, in either          *)
(* direction and on either failure branch, is preceded within the same     *)
(* call by a log entry for that failure.                                   *)
(***************************************************************************)
FailuresAreLogged ==
    \A c \in Callers :
        (qpc[c] \in {"unlock", "done"} /\ result[c].err \in ErrorReturns) =>
            logs[c] = <<result[c].err>>

(***************************************************************************)
(* convert/websocket.go: OrderFromV1Order.                                 *)
(*                                                                         *)
(* A float64 is a sign and a magnitude counted in tenths, so that a        *)
(* product with -1 flips the sign of any value, zero included.  NaN and    *)
(* the infinities are not modelled.                                        *)
(***************************************************************************)
Float(neg, mag) == [neg |-> neg, mag |-> mag]

ZeroFloat == Float(FALSE, 0)

\* strconv.ParseFloat(s, 64): the value, or an error for text that is no
\* decimal number.
ParseFloat(s) ==
    CASE s = "1.5"  -> [f |-> Float(FALSE, 15),  err |-> FALSE]
      [] s = "-1.5" -> [f |-> Float(TRUE, 15),   err |-> FALSE]
      [] s = "0"    -> [f |-> Float(FALSE, 0),   err |-> FALSE]
      [] s = "2"    -> [f |-> Float(FALSE, 20),  err |-> FALSE]
      [] s = "12.9" -> [f |-> Float(FALSE, 129), err |-> FALSE]
      [] OTHER      -> [f |-> ZeroFloat,         err |-> TRUE]

\* int64(ts): the fraction is dropped.
Int64(f) == IF f.neg THEN 0 - (f.mag \div 10) ELSE f.mag \div 10

\* float64(mul) for mul = 1 or mul = -1.
FloatOfSign(mul) == Float(mul < 0, 10)

\* x * y for y = float64(1) or float64(-1).
FloatMul(x, y) == Float(x.neg # y.neg, (x.mag * y.mag) \div 10)

\* The multiplier that gives buy orders the wrong sign.
sideMultiplier_negatesBuy(side) == IF side = "buy" THEN 0 - 1 ELSE 1

\* mul := 1; if o.Side == "sell" { mul = -1 }
sideMultiplier(side) == IF side = "sell" THEN 0 - 1 ELSE 1

\* switch { case o.IsCanceled: ...; case o.IsLive: ... }
statusOf(o) ==
    IF o.IsCanceled THEN "CANCELED"
    ELSE IF o.IsLive THEN "ACTIVE"
    ELSE ""

\* switch o.Type { ... }
typeOf(t) ==
    CASE t = "market"         -> "MARKET"
      [] t = "limit"          -> "LIMIT"
      [] t = "exchange limit" -> "EXCHANGE LIMIT"
      [] t = "stop"           -> "STOP"
      [] t = "trailing-stop"  -> "TRAILING STOP"
      [] OTHER                -> ""

\* A *bitfinex.Order: nil, or a reference to one order.
NilOrder == <<>>

Ref(order) == <<order>>

Failed == [order |-> NilOrder, err |-> TRUE]

\* The conversion with the error of the average price dropped.
OrderFromV1Order_ignoresAvgError(o) ==
    LET ts == ParseFloat(o.Timestamp)
        p  == ParseFloat(o.Price)
        ap == ParseFloat(o.AvgExecutionPrice)
        oa == ParseFloat(o.OriginalAmount)
        or == ParseFloat(o.RemainingAmount)
    IN  IF ts.err THEN Failed
        ELSE IF p.err THEN Failed
        ELSE IF oa.err THEN Failed
        ELSE IF or.err THEN Failed
        ELSE [order |-> Ref([ID         |-> o.ID,
                         Symbol     |-> o.Symbol,
                         Hidden     |-> o.IsHidden,
                         MTSCreated |-> Int64(ts.f),
                         MTSUpdated |-> Int64(ts.f),
                         Price      |-> p.f,
                         PriceAvg   |-> ap.f,
                         Status     |-> statusOf(o),
                         AmountOrig |-> oa.f,
                         Amount     |-> FloatMul(or.f,
                                           FloatOfSign(sideMultiplier(o.Side))),
                         Type       |-> typeOf(o.Type)]),
              err   |-> FALSE]

OrderFromV1Order(o) ==
    LET ts == ParseFloat(o.Timestamp)
        p  == ParseFloat(o.Price)
        ap == ParseFloat(o.AvgExecutionPrice)
        oa == ParseFloat(o.OriginalAmount)
        or == ParseFloat(o.RemainingAmount)
    IN  IF ts.err THEN Failed
        ELSE IF p.err THEN Failed
        ELSE IF ap.err THEN Failed
        ELSE IF oa.err THEN Failed
        ELSE IF or.err THEN Failed
        ELSE [order |-> Ref([ID         |-> o.ID,
                         Symbol     |-> o.Symbol,
                         Hidden     |-> o.IsHidden,
                         MTSCreated |-> Int64(ts.f),
                         MTSUpdated |-> Int64(ts.f),
                         Price      |-> p.f,
                         PriceAvg   |-> ap.f,
                         Status     |-> statusOf(o),
                         AmountOrig |-> oa.f,
                         Amount     |-> FloatMul(or.f,
                                           FloatOfSign(sideMultiplier(o.Side))),
                         Type       |-> typeOf(o.Type)]),
              err   |-> FALSE]

\* The v1 orders handed to the conversion.
V1Orders ==
    [ID                : {"id"},
     Symbol            : {"btcusd"},
     IsHidden          : {FALSE},
     Timestamp         : {"12.9", "abc"},
     Price             : {"1.5", ""},
     AvgExecutionPrice : {"0", "1,5"},
     OriginalAmount    : {"2", "abc"},
     RemainingAmount   : {"1.5", "0", "-1.5", "abc", ""},
     Side              : {"buy", "sell", "", "SELL"},
     Type              : {"market", "limit", "exchange limit", "stop",
                          "trailing-stop", "fill-or-kill"},
     IsCanceled        : BOOLEAN,
     IsLive            : BOOLEAN]

InitOrder ==
    /\ pc = "open"
    /\ counterparty = EmptyString
    /\ counterparties = EmptyMap
    /\ parsed = <<>>
    /\ scanErr = FALSE
    /\ ret = NoReturn
    /\ lock = FALSE
    /\ qpc = [c \in Callers |-> "idle"]
    /\ call = [c \in Callers |-> NoCall]
    /\ iter = [c \in Callers |-> {}]
    /\ result = [c \in Callers |-> NoResult]
    /\ logs = [c \in Callers |-> <<>>]
    /\ v1 \in V1Orders
    /\ out = NoOrder

\* The call OrderFromV1Order(v1) returns.
Convert ==
    /\ out = NoOrder
    /\ out' = <<OrderFromV1Order(v1)>>
    /\ UNCHANGED v1
    /\ UNCHANGED loadVars
    /\ UNCHANGED queryVars

NextOrder == Convert

SpecOrder == InitOrder /\ [][NextOrder]_vars

(***************************************************************************)
(* C12: OrderFromV1Order fails atomically.  If one of the five numeric     *)
(* strings (timestamp, price, average execution price, original amount,    *)
(* remaining amount) cannot be parsed it returns an error and a nil order, *)
(* never a partly filled one; it succeeds whenever all five parse,         *)
(* whatever the side, the type and the state flags are.                    *)
(***************************************************************************)
DecimalStrings == {"1.5", "-1.5", "0", "2", "12.9"}

NumericFields(o) ==
    {o.Timestamp, o.Price, o.AvgExecutionPrice, o.OriginalAmount,
     o.RemainingAmount}

ConversionFailsAtomically ==
    out # NoOrder =>
        IF NumericFields(v1) \subseteq DecimalStrings
        THEN out[1].err = FALSE /\ out[1].order # NilOrder
        ELSE out[1] = [order |-> NilOrder, err |-> TRUE]

\* An order whose average execution price alone does not parse was refused,
\* with a side and a type the conversion does not know.
ConversionFailsWitness ==
    /\ out # NoOrder
    /\ NumericFields(v1) \ DecimalStrings = {v1.AvgExecutionPrice}
    /\ v1.Side = "SELL"
    /\ v1.Type = "fill-or-kill"
    /\ out[1] = [order |-> NilOrder, err |-> TRUE]

(***************************************************************************)
(* C13, as stated: in a successful conversion the signed quantity has the  *)
(* magnitude of the parsed remaining amount, negative exactly when the     *)
(* side is "sell" and positive for every other side.                       *)
(***************************************************************************)
Succeeded == out # NoOrder /\ out[1].err = FALSE

\* The remaining amount as a decimal: sign and tenths.
RemainingIsNegative == v1.RemainingAmount = "-1.5"

RemainingTenths ==
    CASE v1.RemainingAmount \in {"1.5", "-1.5"} -> 15
      [] v1.RemainingAmount = "0"               -> 0

AmountSignFollowsSide ==
    Succeeded =>
        /\ out[1].order[1].Amount.mag = RemainingTenths
        /\ out[1].order[1].Amount.neg = (v1.Side = "sell")

(***************************************************************************)
(* C13, amended: in a successful conversion the signed quantity is the     *)
(* parsed remaining amount multiplied by -1 when the side is "sell" and    *)
(* by 1 for every other side.  It has the magnitude of the parsed          *)
(* remaining amount; for a remaining amount that is not negative its sign  *)
(* is negative exactly when the side is "sell", and a negative remaining   *)
(* amount comes out positive for "sell" and negative otherwise.            *)
(***************************************************************************)
AmountIsRemainingTimesSide ==
    Succeeded =>
        /\ out[1].order[1].Amount.mag = RemainingTenths
        /\ out[1].order[1].Amount.neg = (RemainingIsNegative # (v1.Side = "sell"))

\* A sell order with 1.5 remaining came out as -1.5.
AmountSignWitness ==
    /\ Succeeded
    /\ v1.Side = "sell"
    /\ v1.RemainingAmount = "1.5"
    /\ out[1].order[1].Amount = Float(TRUE, 15)

(***************************************************************************)
(* C14: mutual exclusion.  At any moment at most one caller is inside the  *)
(* body of ToBitfinex or FromBitfinex; the lock is taken before the        *)
(* counterparty lookup and held through the whole lookup, the entire       *)
(* range loop of ToBitfinex included, until the result is determined.      *)
(***************************************************************************)
Inside(c) == qpc[c] \in {"lookup", "range", "unlock"}

MutualExclusion ==
    /\ Cardinality({c \in Callers : Inside(c)}) <= 1
    /\ \A c \in Callers :
          /\ Inside(c) => lock
          /\ qpc[c] = "lock" => result[c] = NoResult /\ iter[c] = {}
          /\ result[c] # NoResult => qpc[c] \in {"unlock", "done"}

\* One caller is in the middle of the range loop, a key already visited,
\* while another one waits for the lock.
MutualExclusionWitness ==
    \E c, d \in Callers :
        /\ c # d
        /\ qpc[c] = "range"
        /\ iter[c] # {}
        /\ iter[c] # DOMAIN counterparties[call[c].counterparty].symbols
        /\ qpc[d] = "lock"
        /\ lock

(***************************************************************************)
(* C15, as stated: on a loaded table two calls with the same arguments     *)
(* return the same symbol and the same found / not-found outcome,          *)
(* whatever other queries ran before or between them.                      *)
(***************************************************************************)
Returned(c) == qpc[c] \in {"unlock", "done"}

SameCallSameResult ==
    \A c, d \in Callers :
        (Returned(c) /\ Returned(d) /\ call[c] = call[d]) =>
            result[c] = result[d]

\* The exchange symbols a symbol set maps to one counterparty symbol.
KeysFor(cp, symbol) ==
    IF cp \in DOMAIN counterparties
    THEN {bfx \in DOMAIN counterparties[cp].symbols :
             counterparties[cp].symbols[bfx] = symbol}
    ELSE {}

(***************************************************************************)
(* C15, amended: on a loaded table two calls with the same arguments       *)
(* always have the same found / not-found outcome, whatever other queries  *)
(* ran before or between them, and return the same symbol, except that     *)
(* ToBitfinex(s, cp) may return different exchange symbols when the        *)
(* symbol set of cp maps several exchange symbols to s and is not          *)
(* passthrough: each call then returns one of them.                        *)
(***************************************************************************)
SameCallSameOutcome ==
    \A c, d \in Callers :
        (Returned(c) /\ Returned(d) /\ call[c] = call[d]) =>
            /\ result[c].err = result[d].err
            /\ result[c] # result[d] =>
                  /\ call[c].op = "ToBitfinex"
                  /\ ~counterparties[call[c].counterparty].passthrough
                  /\ {result[c].sym, result[d].sym} \subseteq
                        KeysFor(call[c].counterparty, call[c].symbol)

\* Two callers have asked ToBitfinex about a counterparty the table does
\* not hold and both were told so.
SameCallWitness ==
    \E c, d \in Callers :
        /\ c # d
        /\ qpc[c] = "done"
        /\ qpc[d] = "done"
        /\ call[c] = call[d]
        /\ call[c].op = "ToBitfinex"
        /\ call[c].counterparty \notin DOMAIN counterparties
        /\ counterparties # EmptyMap
        /\ result[c] = NoCounterparty
        /\ result[d] = NoCounterparty

(***************************************************************************)
(* C16: queries are read-only.  No step of ToBitfinex or FromBitfinex,     *)
(* successful or failing, changes counterparties, the entries or the       *)
(* passthrough flag of a symbol set, or the parse cursor: once             *)
(* NewFileSymbology has returned the table never changes.                  *)
(***************************************************************************)
QueriesAreReadOnly ==
    [][counterparties' = counterparties /\ counterparty' = counterparty]_vars

\* A FromBitfinex call has succeeded and another has failed, and the table
\* is the one the file was parsed into.
ReadOnlyWitness ==
    \E c, d \in Callers :
        /\ qpc[c] = "done"
        /\ qpc[d] = "done"
        /\ call[c].op = "FromBitfinex"
        /\ call[d].op = "FromBitfinex"
        /\ result[c].err = "nil"
        /\ result[d].err \in ErrorReturns
        /\ counterparties = scanLines(newFileSymbology, parsed).counterparties
        /\ counterparty = scanLines(newFileSymbology, parsed).counterparty

(***************************************************************************)
(* C17: a section header line only moves the parse cursor.  Parsing a      *)
(* line [name] with a non-empty name adds no symbol entry and sets no      *)
(* passthrough flag in any symbol set, whatever the name contains ('='     *)
(* included), and a line [] with an empty name does not start a section.   *)
(***************************************************************************)
HeaderOnlyMovesCursor ==
    [][(pc = "scan" /\ Len(parsed') = Len(parsed) + 1) =>
          LET line == parsed'[Len(parsed')]
          IN  HeaderLine(line) =>
                  IF HeaderName(line) # EmptyString
                  THEN /\ counterparty' = HeaderName(line)
                       /\ \A cp \in DOMAIN counterparties' :
                             IF cp \in DOMAIN counterparties
                             THEN counterparties'[cp] = counterparties[cp]
                             ELSE counterparties'[cp] = newSymbolset
                  ELSE /\ counterparty' = counterparty
                       /\ counterparties' = counterparties]_vars

(***************************************************************************)
(* C18: per-counterparty isolation.  A mapping or passthrough line changes *)
(* only the symbol set of the current section (the most recent header      *)
(* before it; a repeated header re-opens its section and keeps the         *)
(* earlier entries), so the symbol set of a counterparty is the one its    *)
(* own lines give, whatever the other sections hold, and no query for one  *)
(* counterparty returns a symbol configured only under another.            *)
(***************************************************************************)
\* The lines of the file that belong to one section, headers included.
SectionLines(cp) ==
    LET InSection(i) == SectionAt(i) = cp
        idx == SelectSeq([i \in 1..Len(parsed) |-> i], InSection)
    IN  [k \in 1..Len(idx) |-> parsed[idx[k]]]

Sections == {SectionAt(i) : i \in 1..Len(parsed)}

\* Some line of section cp assigns value to key.
AssignedIn(cp, key, value) ==
    \E i \in 1..Len(parsed) :
        /\ SectionAt(i) = cp
        /\ AssignLine(parsed[i])
        /\ LeftOf(parsed[i]) = key
        /\ RightOf(parsed[i]) = value

\* Some line of section cp is a passthrough directive.
DirectiveIn(cp) ==
    \E i \in 1..Len(parsed) : SectionAt(i) = cp /\ DirectiveLine(parsed[i])

CounterpartiesAreIsolated ==
    Loaded =>
    \A cp \in Sections \cup DOMAIN counterparties \cup ProbeCounterparties :
        LET own == scanLines(newFileSymbology, SectionLines(cp)).counterparties
        IN  /\ cp \in DOMAIN counterparties <=> cp \in DOMAIN own
            /\ cp \in DOMAIN counterparties => counterparties[cp] = own[cp]
            /\ \A s \in SymbolsFor(cp) :
                  /\ FromBitfinex(s, cp).err = "nil" =>
                        \/ DirectiveIn(cp) /\ FromBitfinex(s, cp).sym = s
                        \/ AssignedIn(cp, s, FromBitfinex(s, cp).sym)
                  /\ \A r \in ToBitfinex(s, cp) :
                        r.err = "nil" =>
                            \/ DirectiveIn(cp) /\ r.sym = s
                            \/ AssignedIn(cp, r.sym, s)

\* Two symbol sets, each filled from its own lines: a=x is not known to B
\* and b=x is not known to the section before it.
IsolationWitness ==
    /\ Loaded
    /\ parsed = << <<"a", "=", "x">>, <<"[", "B", "]">>, <<"b", "=", "x">> >>
    /\ counterparties[<<"B">>].symbols = MapPut(EmptyMap, <<"b">>, <<"x">>)
    /\ counterparties[EmptyString].symbols = MapPut(EmptyMap, <<"a">>, <<"x">>)
    /\ FromBitfinex(<<"a">>, <<"B">>) = NoSymbol
    /\ ToBitfinex(<<"x">>, <<"B">>) = {Found(<<"b">>)}

(***************************************************************************)
(* The callers under fair scheduling.  A goroutine that can take a step    *)
(* eventually takes it; a goroutine waiting for the mutex gets it after    *)
(* finitely many releases, since a sync.Mutex whose waiter fails to        *)
(* acquire it for long is handed over to that waiter.  Nothing obliges a   *)
(* caller to issue a query.                                                *)
(***************************************************************************)
Fairness ==
    \A c \in Callers :
        /\ SF_vars(Lock(c))
        /\ WF_vars(ToBitfinexLookup(c))
        /\ WF_vars(ToBitfinexRange(c))
        /\ WF_vars(FromBitfinexLookup(c))
        /\ WF_vars(Unlock(c))

SpecLive == Init /\ [][Next]_vars /\ Fairness

(***************************************************************************)
(* C19: every query terminates and releases the lock on every return path  *)
(* (unknown counterparty, passthrough, found, unknown symbol).  Under fair *)
(* scheduling each caller that waits for the lock eventually acquires it   *)
(* and returns, and the lock is free whenever no query is in progress, so  *)
(* no sequence of lookups deadlocks the table.                             *)
(***************************************************************************)
QueriesTerminate ==
    /\ []((\A c \in Callers : ~Inside(c)) => ~lock)
    /\ \A c \in Callers : (qpc[c] = "lock") ~> (qpc[c] = "done")

\* Two callers have returned, one with an error and one with a symbol, and
\* the lock is free.
QueriesTerminateWitness ==
    \E c, d \in Callers :
        /\ qpc[c] = "done"
        /\ qpc[d] = "done"
        /\ result[c].err = "symbol"
        /\ result[d].err = "nil"
        /\ ~lock

====
